---- MODULE Spec2Model ----
(***************************************************************************)
(* MixRAG: a Streamlit chat application over an agentic retrieval          *)
(* workflow.  The model follows app.py (the script that Streamlit reruns   *)
(* top to bottom on every interaction), src/graph.py (the workflow graph), *)
(* src/document_retriever.py and src/document_processor.py.                *)
(*                                                                         *)
(* src/graph_nodes.py (generate_query_or_respond, grade_documents,         *)
(* rewrite_question, generate_answer) is imported by graph.py but is not   *)
(* among the sources; its four functions are modelled from the design      *)
(* specification (sections 4.2, 4.3, 7).                                   *)
(*                                                                         *)
(* Texts are sequences of tokens; the token " " is whitespace.  A          *)
(* document or chunk is identified by the source it was loaded from.       *)
(***************************************************************************)
EXTENDS Integers, Sequences, FiniteSets, TLC

\* ------------------------------------------------------------------ bounds

\* Questions accepted in one session (caps the growth of message_history).
MaxTurns == 1

\* ------------------------------------------------------- program constants

\* search_kwargs {"k": 5} of the retriever (document_retriever.py:50).
RetrieverK == 5

\* k=3 of the two direct retrieval calls and of retrieved_docs[:3] (app.py:205).
TopK == 3

\* The rewrite bound of the design specification, section 4.3: "a fixed small
\* integer, e.g. 2-3".
REWRITE_LIMIT == 2

\* ------------------------------------------------------------- input sets

\* The source lists the sidebar widgets can produce (files first, then URLs).
SourceLists == { <<>>, <<"a">>, <<"b">>, <<"a", "b">> }

\* Texts of the exceptions the external services raise.
ErrTexts == { "e1", "e2" }

\* The questions typed into the chat input.
Questions == { <<"q">> }

\* Python None / an optional value: the empty sequence or a one-element one.
None == <<>>

Some(x) == <<x>>

\* ------------------------------------------------------------ text helpers

Min(a, b) == IF a <= b THEN a ELSE b

FirstK(s, k) == SubSeq(s, 1, Min(k, Len(s)))

Last(s) == s[Len(s)]

IsSpace(tok) == tok = " "

RECURSIVE LStrip(_)
LStrip(t) == IF t # <<>> /\ IsSpace(Head(t)) THEN LStrip(Tail(t)) ELSE t

RECURSIVE RStrip(_)
RStrip(t) == IF t # <<>> /\ IsSpace(Last(t)) THEN RStrip(SubSeq(t, 1, Len(t) - 1)) ELSE t

\* str.strip()
Strip(t) == RStrip(LStrip(t))

Contains(t, tok) == \E i \in 1..Len(t) : t[i] = tok

\* str.lower() on the tokens that have an upper-case form.
Lower(tok) == IF tok = "GitHub" THEN "github" ELSE tok

\* skip_keywords of clean_streamed_text; "<bullet>" is the character U+2022.
skip_keywords ==
    { "binary_score", "email", "linkedin", "github", "website",
      "experience", "education <bullet>", "<bullet>", "http://", "https://" }

\* clean_streamed_text(text)
clean_streamed_text(text) ==
    LET t == Strip(text) IN
    IF t = <<>> THEN <<>>
    ELSE IF Head(t) = "{" /\ Last(t) = "}" THEN <<>>
    ELSE IF \E i \in 1..Len(t) : Lower(t[i]) \in skip_keywords THEN <<>>
    ELSE t

\* All subsequences of s (order kept): what a per-element success/failure keeps.
RECURSIVE Keep(_, _, _)
Keep(s, mask, i) ==
    IF i > Len(s) THEN <<>>
    ELSE (IF mask[i] THEN <<s[i]>> ELSE <<>>) \o Keep(s, mask, i + 1)

SubSeqs(s) == { Keep(s, mask, 1) : mask \in [1..Len(s) -> BOOLEAN] }

\* All orders of the elements of s: the similarity ranking depends on the query
\* embedding, which the model leaves open.
Rankings(s) ==
    { [i \in 1..Len(s) |-> s[p[i]]] :
        p \in { f \in [1..Len(s) -> 1..Len(s)] :
                  \A i, j \in 1..Len(s) : f[i] = f[j] => i = j } }

\* The elements of a sequence.
Range(s) == { s[i] : i \in 1..Len(s) }

\* --------------------------------------------------------- workflow graph

START == "__start__"

END == "__end__"

\* The two outcomes of the DECIDE model call and the three of the grader call.
DecideOutcomes == { "tool_call", "direct" }

GradeLabels == { "relevant", "not_relevant", "malformed" }

\* What a node's model call can stream as content: a text that
\* clean_streamed_text keeps and one that it drops.
TextSamples == { <<"a">>, <<"a", "<bullet>">> }

\* The structured grader output as it is streamed.
GradeJson == <<"{", "binary_score", "}">>

\* langgraph.prebuilt.tools_condition: "tools" when the last AI message holds a
\* tool call, END otherwise.
tools_condition(outcome) == IF outcome = "tool_call" THEN "tools" ELSE END

\* The path map of the conditional edges out of generate_query_or_respond.
DecideEdge(cond) == IF cond = "tools" THEN "retrieve" ELSE END

\* Mutants of RetrieveEdge: a path map whose two keys lead to the same node.
RetrieveEdge_AlwaysRewrite(route) == "rewrite_question"

RetrieveEdge_AlwaysAnswer(route) == "generate_answer"

\* The path map of the conditional edges out of retrieve.
RetrieveEdge(route) ==
    IF route = "generate_answer" THEN "generate_answer" ELSE "rewrite_question"

\* Mutant of PlainEdge: rewrite_question leads to generate_answer.
PlainEdge_RewriteToAnswer(from) ==
    CASE from = START -> "generate_query_or_respond"
      [] from = "generate_answer" -> END
      [] from = "rewrite_question" -> "generate_answer"

\* The plain edges: START -> generate_query_or_respond, generate_answer -> END,
\* rewrite_question -> generate_query_or_respond.
PlainEdge(from) ==
    CASE from = START -> "generate_query_or_respond"
      [] from = "generate_answer" -> END
      [] from = "rewrite_question" -> "generate_query_or_respond"

\* grade_documents (graph_nodes.py, modelled from the design specification):
\* a malformed grade counts as not_relevant; once REWRITE_LIMIT rewrites were
\* made the route is forced to generate_answer.
grade_documents(label, done) ==
    IF done >= REWRITE_LIMIT THEN "generate_answer"
    ELSE IF label = "relevant" THEN "generate_answer"
    ELSE "rewrite_question"

\* The nodes that run code (a model call or the tool); "grade" is the position
\* of the routing function grade_documents between retrieve and its successor.
RunningNodes ==
    { "generate_query_or_respond", "retrieve", "grade",
      "rewrite_question", "generate_answer" }

\* ------------------------------------------------------------- app helpers

\* Mutant of SourcesChanged: the lists are compared by length only.
SourcesChanged_ByLength(src, cur) == Len(src) # Len(cur)

\* if sources != st.session_state['current_sources']
SourcesChanged(src, cur) == src # cur

\* if build_kb_button and sources
BuildRequested(button, src) == button /\ src # <<>>

\* Mutant of QuestionsBlocked: the guard before the chat input is missing.
QuestionsBlocked_Never(built) == FALSE

\* if not st.session_state['knowledge_base_built']: ... st.stop()
QuestionsBlocked(built) == ~built

\* Mutant of NoSplitsProvided: the constructor accepts an empty list.
NoSplitsProvided_Never(splits) == FALSE

\* DocumentRetriever.__init__: if not doc_splits: raise ValueError(...)
NoSplitsProvided(splits) == splits = <<>>

\* The fixed texts of the script.
NoDocsLoadedMsg == <<"No documents loaded! Please check your files and URLs.">>

BuildErrorPrefix == "Error building knowledge base: "

SorryPrefix == "Sorry, I encountered an error while processing your question: "

NoInfoMsg == <<"I couldn't find any relevant information to answer your question.">>

NoSplitsText == "No document splits provided"

\* fallback_prompt: the question and the joined page contents of
\* retrieved_docs[:3].
FallbackPrompt(q, docs) ==
    <<"Based on the following context, answer this question: ">> \o q
        \o <<"Context:">> \o FirstK(docs, TopK)

\* The content of the fallback model's reply to a prompt.
ModelReply(prompt) == <<"reply to: ">> \o prompt

\* final_response += clean_text + " " (skipped when clean_text is empty)
Accumulate(final, content) ==
    LET clean_text == clean_streamed_text(content) IN
    IF clean_text = <<>> THEN final ELSE final \o clean_text \o <<" ">>

\* retriever.invoke(query) and then [:k]: the first k of the first RetrieverK
\* of a ranking of the index's chunks.
TopOf(ranking, k) == FirstK(FirstK(ranking, RetrieverK), k)

User(content) == [role |-> "user", content |-> content]

Assistant(content) == [role |-> "assistant", content |-> content]

HumanMessage(content) == [type |-> "human", content |-> content]

AIMessage(content) == [type |-> "ai", content |-> content]

\* Mutant of convert_history_to_lc_messages: only the user entries are
\* converted.
RECURSIVE convert_history_UserOnly(_)
convert_history_UserOnly(history) ==
    IF history = <<>> THEN <<>>
    ELSE (IF Head(history).role = "user"
            THEN <<HumanMessage(Head(history).content)>> ELSE <<>>)
         \o convert_history_UserOnly(Tail(history))

\* convert_history_to_lc_messages (app.py 24-31): an entry of another role is
\* left out.
RECURSIVE convert_history_to_lc_messages(_)
convert_history_to_lc_messages(history) ==
    IF history = <<>> THEN <<>>
    ELSE (CASE Head(history).role = "user" -> <<HumanMessage(Head(history).content)>>
            [] Head(history).role = "assistant" -> <<AIMessage(Head(history).content)>>
            [] OTHER -> <<>>)
         \o convert_history_to_lc_messages(Tail(history))

\* The message a node returns; the model keeps its type and the node that
\* wrote it and leaves its text open.
NodeMessage(type, by) == [type |-> type, content |-> <<by>>]

\* langgraph's add_messages, the reducer of MessagesState: the messages a node
\* returns are appended to the conversation.
add_messages(left, right) == left \o right

NumUser(history) == Cardinality({ i \in 1..Len(history) : history[i].role = "user" })

\* ------------------------------------------------------------------- state

VARIABLES
    message_history,      \* st.session_state['message_history']
    knowledge_base_built, \* st.session_state['knowledge_base_built']
    current_sources,      \* st.session_state['current_sources']
    document_retriever,   \* st.session_state['document_retriever']: None or Some(index)
    sources,              \* the list collected from the widgets in this run
    build_kb_button,      \* the button's value in this run
    question,             \* the chat submission carried by this run, None if none
    pc,                   \* the position of the script
    docs_list,            \* locals of the build block
    doc_splits,
    parts,                \* the attributes __init__ has set on the new DocumentRetriever
    top_docs,             \* locals of the question block
    retrieved_docs,
    final_response,
    wf_error,             \* the exception e caught around the stream, "none" if none
    fb_error,             \* the exception caught around the fallback call
    displayed,            \* the texts this run has put on the page
    chat_input_shown,     \* the page holds the chat input (line 200 was reached)
    node,                 \* the workflow position: the node to run next
    path,                 \* the nodes run so far in this traversal, grades included
    rewrites,             \* rewrite_question runs in this traversal
    evidence,             \* the chunks of the last tool call
    pre_retriever,        \* document_retriever and knowledge_base_built as they
    pre_built,            \* were when this run started
    messages,             \* the conversation of the traversal (MessagesState)
    partial_response,     \* final_response as it was when the stream raised
    turns,                \* user entries appended since the model's first state
    call                  \* a function called on its own: name, arguments, result

session == <<message_history, knowledge_base_built, current_sources, document_retriever>>

widgets == <<sources, build_kb_button, question>>

buildLocals == <<docs_list, doc_splits, parts>>

askLocals == <<top_docs, retrieved_docs, final_response, wf_error, fb_error>>

wf == <<node, path, rewrites, evidence>>

pre == <<pre_retriever, pre_built>>

app ==
    <<session, widgets, pc, buildLocals, askLocals, displayed, chat_input_shown, wf, pre,
      messages, partial_response, turns>>

vars == <<app, call>>

\* No function is called on its own: the script runs.
NoCall == [fn |-> "none", args |-> <<>>, result |-> <<>>]

\* The script's state before the first run.
AppInit ==
    /\ message_history = <<>>
    /\ knowledge_base_built = FALSE
    /\ current_sources = <<>>
    /\ document_retriever = None
    /\ sources = <<>>
    /\ build_kb_button = FALSE
    /\ question = None
    /\ pc = "idle"
    /\ docs_list = <<>>
    /\ doc_splits = <<>>
    /\ parts = {}
    /\ top_docs = <<>>
    /\ retrieved_docs = <<>>
    /\ final_response = <<>>
    /\ wf_error = "none"
    /\ fb_error = "none"
    /\ displayed = {}
    /\ chat_input_shown = FALSE
    /\ node = START
    /\ path = <<>>
    /\ rewrites = 0
    /\ evidence = <<>>
    /\ pre_retriever = None
    /\ pre_built = FALSE
    /\ messages = <<>>
    /\ partial_response = <<>>
    /\ turns = 0

Init == AppInit /\ call = NoCall

\* The script has ended or stopped: its locals are gone; the page stays.
ScriptEnds ==
    /\ pc' = "idle"
    /\ build_kb_button' = FALSE
    /\ question' = None
    /\ docs_list' = <<>>
    /\ doc_splits' = <<>>
    /\ parts' = {}
    /\ top_docs' = <<>>
    /\ retrieved_docs' = <<>>
    /\ final_response' = <<>>
    /\ wf_error' = "none"
    /\ fb_error' = "none"
    /\ node' = START
    /\ path' = <<>>
    /\ rewrites' = 0
    /\ evidence' = <<>>
    /\ pre_retriever' = None
    /\ pre_built' = FALSE
    /\ partial_response' = <<>>
    /\ messages' = <<>>

\* ------------------------------------------------- the script: top of a run

\* A widget interaction starts a run of the script with the widgets' values:
\* the source list, the build button (true only in the run its click caused)
\* and the chat submission (present only in the run it caused, and only when
\* the page holds the chat input).  Lines 73-167:
\* the session defaults, the source collection, the sources_changed check and
\* the test of the build block.
RunScript(newSources, button, q) ==
    /\ pc = "idle"
    /\ ~(button /\ q # None)
    /\ q # None => chat_input_shown
    /\ q # None => turns < MaxTurns
    /\ sources' = newSources
    /\ build_kb_button' = button
    /\ question' = q
    /\ pre_retriever' = document_retriever
    /\ pre_built' = knowledge_base_built
    /\ displayed' = {}
    /\ IF SourcesChanged(newSources, current_sources)
         THEN /\ knowledge_base_built' = FALSE
              /\ document_retriever' = None
         ELSE UNCHANGED <<knowledge_base_built, document_retriever>>
    /\ pc' = IF BuildRequested(button, newSources) THEN "load" ELSE "guard"
    /\ UNCHANGED <<message_history, current_sources, buildLocals, askLocals, wf>>
    /\ UNCHANGED <<chat_input_shown, call, turns, partial_response, messages>>

\* ------------------------------------------------------------ build block

\* DocumentProcessor.load_documents: each source loads or fails on its own; the
\* documents of the sources that loaded are returned in source order.
load_documents(srcs, loads) == Keep(srcs, loads, 1)

\* docs_list = load_documents(sources), some document loaded.
LoadDocuments(loads) ==
    /\ pc = "load"
    /\ load_documents(sources, loads) # <<>>
    /\ docs_list' = load_documents(sources, loads)
    /\ pc' = "split"
    /\ UNCHANGED <<session, widgets, doc_splits, parts, askLocals, displayed, wf, pre>>
    /\ UNCHANGED <<chat_input_shown, call, turns, partial_response, messages>>

\* if not docs_list: st.error(...); st.stop()
LoadNothing(loads) ==
    /\ pc = "load"
    /\ load_documents(sources, loads) = <<>>
    /\ displayed' = displayed \cup { NoDocsLoadedMsg }
    /\ ScriptEnds
    /\ UNCHANGED <<session, sources>>
    /\ chat_input_shown' = FALSE
    /\ UNCHANGED <<call, turns>>

\* Mutant of BuildExcept: the handler also drops the stored index.
BuildExcept_Resets(err) ==
    /\ displayed' = displayed \cup { <<BuildErrorPrefix, err>> }
    /\ knowledge_base_built' = FALSE
    /\ document_retriever' = None
    /\ pc' = "build_failed"
    /\ parts' = {}
    /\ UNCHANGED <<message_history, current_sources, widgets, docs_list, doc_splits,
                   askLocals, wf, pre>>
    /\ UNCHANGED <<chat_input_shown, call, turns, partial_response, messages>>

\* except Exception as e: st.error(f"... {str(e)}"); logger.error(...)
\* An object whose __init__ raised is bound to no name and is gone.
BuildExcept(err) ==
    /\ displayed' = displayed \cup { <<BuildErrorPrefix, err>> }
    /\ pc' = "build_failed"
    /\ parts' = {}
    /\ UNCHANGED <<session, widgets, docs_list, doc_splits, askLocals, wf, pre>>
    /\ UNCHANGED <<chat_input_shown, call, turns, partial_response, messages>>

\* doc_splits = DocumentSplitter().split_documents(docs_list): a document
\* yields a chunk, or none when it has no text.
SplitDocuments(splits) ==
    /\ pc = "split"
    /\ splits \in SubSeqs(docs_list)
    /\ doc_splits' = splits
    /\ pc' = "ctor"
    /\ UNCHANGED <<session, widgets, docs_list, parts, askLocals, displayed, wf, pre>>
    /\ UNCHANGED <<chat_input_shown, call, turns, partial_response, messages>>

SplitRaises(err) ==
    /\ pc = "split"
    /\ BuildExcept(err)

\* The attributes of a DocumentRetriever that __init__ has finished.
AllParts == { "embeddings", "vector_store", "retriever", "retriever_tool" }

CtorPcs == { "ctor", "ctor_vector_store", "ctor_tool" }

\* __init__, lines 13-24: the list is not empty, self.embeddings is created.
CreateEmbeddings ==
    /\ pc = "ctor"
    /\ ~NoSplitsProvided(doc_splits)
    /\ parts' = { "embeddings" }
    /\ pc' = "ctor_vector_store"
    /\ UNCHANGED <<session, widgets, docs_list, doc_splits, askLocals, displayed, wf, pre>>
    /\ UNCHANGED <<chat_input_shown, call, turns, partial_response, messages>>

\* __init__, line 27: create_vector_store sets self.vector_store and
\* self.retriever.
CreateVectorStore ==
    /\ pc = "ctor_vector_store"
    /\ parts' = parts \cup { "vector_store", "retriever" }
    /\ pc' = "ctor_tool"
    /\ UNCHANGED <<session, widgets, docs_list, doc_splits, askLocals, displayed, wf, pre>>
    /\ UNCHANGED <<chat_input_shown, call, turns, partial_response, messages>>

\* __init__, lines 30-32: create_retriever sets self.retriever_tool, and
\* DocumentRetriever(doc_splits) returns the object to line 182.
ConstructRetriever ==
    /\ pc = "ctor_tool"
    /\ parts' = parts \cup { "retriever_tool" }
    /\ pc' = "store"
    /\ UNCHANGED <<session, widgets, docs_list, doc_splits, askLocals, displayed, wf, pre>>
    /\ UNCHANGED <<chat_input_shown, call, turns, partial_response, messages>>

\* DocumentRetriever(doc_splits) raises ValueError on an empty list.
ConstructRejectsEmpty ==
    /\ pc = "ctor"
    /\ NoSplitsProvided(doc_splits)
    /\ BuildExcept(NoSplitsText)

\* DocumentRetriever(doc_splits) raises from OpenAIEmbeddings(), from
\* create_vector_store or from create_retriever (each logs and re-raises).
ConstructRaises(err) ==
    /\ pc \in CtorPcs
    /\ pc = "ctor" => ~NoSplitsProvided(doc_splits)
    /\ BuildExcept(err)

\* The object line 182 has bound: the index built from doc_splits with the
\* attributes __init__ has set; built_from records the source list of the run
\* that built it.
NewIndex == [built_from |-> sources, chunks |-> doc_splits, parts |-> parts]

\* Mutant of StoreIndex: the built flag is set together with the retriever,
\* before current_sources is stored.
StoreIndex_SetsFlag ==
    /\ pc = "store"
    /\ document_retriever' = Some(NewIndex)
    /\ knowledge_base_built' = TRUE
    /\ pc' = "store_sources"
    /\ UNCHANGED <<message_history, current_sources, widgets, buildLocals, askLocals,
                   displayed, wf, pre>>
    /\ UNCHANGED <<chat_input_shown, call, turns, partial_response, messages>>

\* Line 185: st.session_state['document_retriever'] = document_retriever
StoreIndex ==
    /\ pc = "store"
    /\ document_retriever' = Some(NewIndex)
    /\ pc' = "store_sources"
    /\ UNCHANGED <<message_history, current_sources, knowledge_base_built, widgets,
                   buildLocals, askLocals, displayed, wf, pre>>
    /\ UNCHANGED <<chat_input_shown, call, turns, partial_response, messages>>

\* Line 186: st.session_state['current_sources'] = sources.copy()
StoreSources ==
    /\ pc = "store_sources"
    /\ current_sources' = sources
    /\ pc' = "store_built"
    /\ UNCHANGED <<message_history, document_retriever, knowledge_base_built, widgets,
                   buildLocals, askLocals, displayed, wf, pre>>
    /\ UNCHANGED <<chat_input_shown, call, turns, partial_response, messages>>

\* Lines 187-189: st.session_state['knowledge_base_built'] = True, then the
\* success message; the build block is left.
StoreBuilt ==
    /\ pc = "store_built"
    /\ knowledge_base_built' = TRUE
    /\ displayed' = displayed \cup { <<"Knowledge base built successfully!">> }
    /\ pc' = "guard"
    /\ docs_list' = <<>>
    /\ doc_splits' = <<>>
    /\ parts' = {}
    /\ UNCHANGED <<message_history, document_retriever, current_sources, widgets,
                   askLocals, wf, pre>>
    /\ UNCHANGED <<chat_input_shown, call, turns, partial_response, messages>>

\* The handler has run; the script goes on below the build block, where no
\* line reads the locals of the build block.
AfterBuildFailed ==
    /\ pc = "build_failed"
    /\ pc' = "guard"
    /\ docs_list' = <<>>
    /\ doc_splits' = <<>>
    /\ parts' = {}
    /\ UNCHANGED <<session, widgets, askLocals, displayed, wf, pre>>
    /\ UNCHANGED <<chat_input_shown, call, turns, partial_response, messages>>

\* --------------------------------------------------------- question block

\* Lines 196-198: no knowledge base, so st.info(...) and st.stop().
GuardStops ==
    /\ pc = "guard"
    /\ QuestionsBlocked(knowledge_base_built)
    /\ ScriptEnds
    /\ UNCHANGED <<session, sources, displayed>>
    /\ chat_input_shown' = FALSE
    /\ UNCHANGED <<call, turns>>

\* Lines 200-202: the chat input is shown; without a submission the script
\* runs to its end.
NoQuestion ==
    /\ pc = "guard"
    /\ ~QuestionsBlocked(knowledge_base_built)
    /\ question = None
    /\ ScriptEnds
    /\ UNCHANGED <<session, sources, displayed>>
    /\ chat_input_shown' = TRUE
    /\ UNCHANGED <<call, turns>>

\* Lines 200-204: user_input is the submission.
TakeQuestion ==
    /\ pc = "guard"
    /\ ~QuestionsBlocked(knowledge_base_built)
    /\ question # None
    /\ pc' = "top_k"
    /\ UNCHANGED <<session, widgets, buildLocals, askLocals, displayed, wf, pre>>
    /\ chat_input_shown' = TRUE
    /\ UNCHANGED <<call, turns, partial_response, messages>>

\* retrieve_top_k(query, k): self.retriever.get_relevant_documents(query)[:k]
retrieve_top_k(ranking, k) == TopOf(ranking, k)

\* Mutant of retrieve_documents: the result of the retriever is not cut to k.
retrieve_documents_NoCut(ranking, k) == FirstK(ranking, RetrieverK)

\* retrieve_documents(query, k): retriever.invoke(query), cut to k.
retrieve_documents(ranking, k) ==
    LET documents == FirstK(ranking, RetrieverK) IN
    IF Len(documents) > k THEN SubSeq(documents, 1, k) ELSE documents

\* The chunks of the stored index (the script reads it without a None test).
Chunks(retriever) == IF retriever = None THEN <<>> ELSE retriever[1].chunks

\* top_docs = document_retriever.retrieve_top_k(user_input, k=3)
RetrieveTopK(ranking) ==
    /\ pc = "top_k"
    /\ document_retriever # None
    /\ ranking \in Rankings(Chunks(document_retriever))
    /\ top_docs' = retrieve_top_k(ranking, TopK)
    /\ pc' = "retrieve_documents"
    /\ UNCHANGED <<session, widgets, buildLocals, retrieved_docs, final_response,
                   wf_error, fb_error, displayed, wf, pre>>
    /\ UNCHANGED <<chat_input_shown, call, turns, partial_response, messages>>

\* retrieve_top_k raises (the embedding call failed, or the retriever is None):
\* nothing catches it, and Streamlit ends the run showing the exception.
RetrieveTopKRaises(err) ==
    /\ pc = "top_k"
    /\ displayed' = displayed \cup { <<"Traceback: ", err>> }
    /\ ScriptEnds
    /\ UNCHANGED <<session, sources>>
    /\ UNCHANGED <<chat_input_shown, call, turns>>

\* retrieved_docs = document_retriever.retrieve_documents(user_input, k=3)
RetrieveDocuments(ranking) ==
    /\ pc = "retrieve_documents"
    /\ ranking \in Rankings(Chunks(document_retriever))
    /\ retrieved_docs' = retrieve_documents(ranking, TopK)
    /\ pc' = "append_user"
    /\ UNCHANGED <<session, widgets, buildLocals, top_docs, final_response,
                   wf_error, fb_error, displayed, wf, pre>>
    /\ UNCHANGED <<chat_input_shown, call, turns, partial_response, messages>>

\* retrieve_documents catches every exception and returns [].
RetrieveDocumentsFails ==
    /\ pc = "retrieve_documents"
    /\ retrieved_docs' = <<>>
    /\ pc' = "append_user"
    /\ UNCHANGED <<session, widgets, buildLocals, top_docs, final_response,
                   wf_error, fb_error, displayed, wf, pre>>
    /\ UNCHANGED <<chat_input_shown, call, turns, partial_response, messages>>

\* Lines 209-234: the sidebar, MixRAGGraph(...), the user entry appended and
\* shown, the history converted, final_response = "".
AppendUser ==
    /\ pc = "append_user"
    /\ message_history' = Append(message_history, User(question))
    /\ final_response' = <<>>
    /\ node' = START
    /\ path' = <<>>
    /\ rewrites' = 0
    /\ evidence' = <<>>
    /\ pc' = "stream"
    /\ UNCHANGED <<knowledge_base_built, current_sources, document_retriever, widgets,
                   buildLocals, top_docs, retrieved_docs, wf_error, fb_error,
                   displayed, pre>>
    /\ UNCHANGED chat_input_shown
    /\ UNCHANGED call
    /\ turns' = turns + 1
    /\ UNCHANGED partial_response
    /\ messages' = convert_history_to_lc_messages(message_history')

\* ------------------------------------------- the workflow, as it is streamed

\* Lines 246-255 for one streamed message: cleaned, and appended when not empty.
Streamed(content) == final_response' = Accumulate(final_response, content)

\* START -> generate_query_or_respond
WfStart ==
    /\ pc = "stream"
    /\ node = START
    /\ node' = PlainEdge(START)
    /\ UNCHANGED <<pc, session, widgets, buildLocals, askLocals, displayed,
                   path, rewrites, evidence, pre>>
    /\ UNCHANGED <<chat_input_shown, call, turns, partial_response, messages>>

\* DECIDE: the tool-capable model call; a tool call carries no content.
GenerateQueryOrRespond(outcome, content) ==
    /\ pc = "stream"
    /\ node = "generate_query_or_respond"
    /\ outcome = "tool_call" => content = <<>>
    /\ outcome = "direct" => content \in TextSamples
    /\ Streamed(content)
    /\ path' = Append(path, node)
    /\ node' = DecideEdge(tools_condition(outcome))
    /\ UNCHANGED <<pc, session, widgets, buildLocals, top_docs, retrieved_docs,
                   wf_error, fb_error, displayed, rewrites, evidence, pre>>
    /\ UNCHANGED <<chat_input_shown, call, turns>>
    /\ UNCHANGED partial_response
    /\ messages' = add_messages(messages, <<NodeMessage("ai", node)>>)

\* RETRIEVE: ToolNode([retriever_tool]); the evidence may be empty.
Retrieve(ev, content) ==
    /\ pc = "stream"
    /\ node = "retrieve"
    /\ \/ ev = <<>>
       \/ \E r \in Rankings(Chunks(document_retriever)) : ev = FirstK(r, RetrieverK)
    /\ evidence' = ev
    /\ Streamed(content)
    /\ path' = Append(path, node)
    /\ node' = "grade"
    /\ UNCHANGED <<pc, session, widgets, buildLocals, top_docs, retrieved_docs,
                   wf_error, fb_error, displayed, rewrites, pre>>
    /\ UNCHANGED <<chat_input_shown, call, turns>>
    /\ UNCHANGED partial_response
    /\ messages' = add_messages(messages, <<NodeMessage("tool", node)>>)

\* GRADE: the routing function of the conditional edges out of retrieve; the
\* path records the grader's label.
GradeDocuments(label) ==
    /\ pc = "stream"
    /\ node = "grade"
    /\ Streamed(GradeJson)
    /\ path' = Append(path, label)
    /\ node' = RetrieveEdge(grade_documents(label, rewrites))
    /\ UNCHANGED <<pc, session, widgets, buildLocals, top_docs, retrieved_docs,
                   wf_error, fb_error, displayed, rewrites, evidence, pre>>
    /\ UNCHANGED <<chat_input_shown, call, turns, partial_response, messages>>

\* REWRITE: one model call; the new question is added to the conversation.
RewriteQuestion(content) ==
    /\ pc = "stream"
    /\ node = "rewrite_question"
    /\ Streamed(content)
    /\ rewrites' = rewrites + 1
    /\ path' = Append(path, node)
    /\ node' = PlainEdge(node)
    /\ UNCHANGED <<pc, session, widgets, buildLocals, top_docs, retrieved_docs,
                   wf_error, fb_error, displayed, evidence, pre>>
    /\ UNCHANGED <<chat_input_shown, call, turns>>
    /\ UNCHANGED partial_response
    /\ messages' = add_messages(messages, <<NodeMessage("human", node)>>)

\* ANSWER: one model call over the conversation and the evidence.
GenerateAnswer(content) ==
    /\ pc = "stream"
    /\ node = "generate_answer"
    /\ Streamed(content)
    /\ path' = Append(path, node)
    /\ node' = PlainEdge(node)
    /\ UNCHANGED <<pc, session, widgets, buildLocals, top_docs, retrieved_docs,
                   wf_error, fb_error, displayed, rewrites, evidence, pre>>
    /\ UNCHANGED <<chat_input_shown, call, turns>>
    /\ UNCHANGED partial_response
    /\ messages' = add_messages(messages, <<NodeMessage("ai", node)>>)

\* A node's call raises: the exception leaves workflow.stream and is caught at
\* "except Exception as e" (line 256). The traversal is over and its state
\* (the workflow is compiled without a checkpointer) is gone with it.
NodeRaises(err) ==
    /\ pc = "stream"
    /\ node \in RunningNodes
    /\ wf_error' = err
    /\ pc' = "fallback"
    /\ node' = START
    /\ path' = <<>>
    /\ rewrites' = 0
    /\ evidence' = <<>>
    /\ messages' = <<>>
    /\ partial_response' = final_response
    /\ UNCHANGED <<session, widgets, buildLocals, top_docs, retrieved_docs,
                   final_response, fb_error, displayed, pre>>
    /\ UNCHANGED <<chat_input_shown, call, turns>>

\* The stream is exhausted.
StreamEnds ==
    /\ pc = "stream"
    /\ node = END
    /\ pc' = "append_assistant"
    /\ UNCHANGED <<session, widgets, buildLocals, askLocals, displayed, wf, pre>>
    /\ UNCHANGED <<chat_input_shown, call, turns, partial_response, messages>>

\* ---------------------------------------------------------------- fallback

\* else: final_response = "I couldn't find any relevant information ..."
FallbackNoEvidence ==
    /\ pc = "fallback"
    /\ retrieved_docs = <<>>
    /\ final_response' = NoInfoMsg
    /\ pc' = "append_assistant"
    /\ UNCHANGED <<session, widgets, buildLocals, top_docs, retrieved_docs,
                   wf_error, fb_error, displayed, wf, pre>>
    /\ UNCHANGED <<chat_input_shown, call, turns, partial_response, messages>>

\* Mutant of FallbackAnswers: the reply is added to what the stream had
\* accumulated (+= instead of =).
FallbackAnswers_Appends ==
    /\ pc = "fallback"
    /\ retrieved_docs # <<>>
    /\ final_response' = final_response \o ModelReply(FallbackPrompt(question, retrieved_docs))
    /\ pc' = "append_assistant"
    /\ UNCHANGED <<session, widgets, buildLocals, top_docs, retrieved_docs,
                   wf_error, fb_error, displayed, wf, pre>>
    /\ UNCHANGED <<chat_input_shown, call, turns, partial_response, messages>>

\* if retrieved_docs: ... final_response = fallback_response.content
FallbackAnswers ==
    /\ pc = "fallback"
    /\ retrieved_docs # <<>>
    /\ final_response' = ModelReply(FallbackPrompt(question, retrieved_docs))
    /\ pc' = "append_assistant"
    /\ UNCHANGED <<session, widgets, buildLocals, top_docs, retrieved_docs,
                   wf_error, fb_error, displayed, wf, pre>>
    /\ UNCHANGED <<chat_input_shown, call, turns, partial_response, messages>>

\* except Exception as fallback_error: final_response = f"Sorry, ... {str(e)}"
\* where e is the exception of the workflow.
FallbackRaises(err) ==
    /\ pc = "fallback"
    /\ retrieved_docs # <<>>
    /\ fb_error' = err
    /\ final_response' = <<SorryPrefix, wf_error>>
    /\ pc' = "append_assistant"
    /\ UNCHANGED <<session, widgets, buildLocals, top_docs, retrieved_docs,
                   wf_error, displayed, wf, pre>>
    /\ UNCHANGED <<chat_input_shown, call, turns, partial_response, messages>>

\* Line 279, and the script runs to its end.
AppendAssistant ==
    /\ pc = "append_assistant"
    /\ message_history' = Append(message_history, Assistant(Strip(final_response)))
    /\ ScriptEnds
    /\ UNCHANGED <<knowledge_base_built, current_sources, document_retriever,
                   sources, displayed>>
    /\ UNCHANGED <<chat_input_shown, call, turns>>

\* The positions at which the script calls into Streamlit (st.spinner, the
\* sidebar expander, st.chat_message and response_container.markdown), where
\* the script runner delivers a stop or a rerun request: the run ends there.
InterruptPcs == { "load", "append_user", "stream", "append_assistant" }

Interrupt ==
    /\ pc \in InterruptPcs
    /\ ScriptEnds
    /\ UNCHANGED <<session, sources, displayed>>
    /\ UNCHANGED <<chat_input_shown, call, turns>>

\* ------------------------------------------------------------ specification

Next ==
    \/ \E newSources \in SourceLists, button \in BOOLEAN, q \in Questions \cup { None } :
          RunScript(newSources, button, q)
    \/ \E loads \in [1..Len(sources) -> BOOLEAN] : LoadDocuments(loads)
    \/ \E loads \in [1..Len(sources) -> BOOLEAN] : LoadNothing(loads)
    \/ \E splits \in SubSeqs(docs_list) : SplitDocuments(splits)
    \/ \E err \in ErrTexts : SplitRaises(err)
    \/ CreateEmbeddings
    \/ CreateVectorStore
    \/ ConstructRetriever
    \/ ConstructRejectsEmpty
    \/ \E err \in ErrTexts : ConstructRaises(err)
    \/ StoreIndex
    \/ StoreSources
    \/ StoreBuilt
    \/ AfterBuildFailed
    \/ GuardStops
    \/ NoQuestion
    \/ TakeQuestion
    \/ \E ranking \in Rankings(Chunks(document_retriever)) : RetrieveTopK(ranking)
    \/ \E err \in ErrTexts : RetrieveTopKRaises(err)
    \/ \E ranking \in Rankings(Chunks(document_retriever)) : RetrieveDocuments(ranking)
    \/ RetrieveDocumentsFails
    \/ AppendUser
    \/ WfStart
    \/ \E outcome \in DecideOutcomes, content \in TextSamples \cup { <<>> } :
          GenerateQueryOrRespond(outcome, content)
    \/ \E ev \in { <<>> } \cup { FirstK(r, RetrieverK) : r \in Rankings(Chunks(document_retriever)) },
          content \in TextSamples : Retrieve(ev, content)
    \/ \E label \in GradeLabels : GradeDocuments(label)
    \/ \E content \in TextSamples : RewriteQuestion(content)
    \/ \E content \in TextSamples : GenerateAnswer(content)
    \/ \E err \in ErrTexts : NodeRaises(err)
    \/ StreamEnds
    \/ FallbackNoEvidence
    \/ FallbackAnswers
    \/ \E err \in ErrTexts : FallbackRaises(err)
    \/ AppendAssistant
    \/ Interrupt

Spec == Init /\ [][Next]_vars

\* The session after one turn on the source "a" has been answered from the
\* stream (a state of Spec), with MaxTurns questions still to come.
InitAfterTurn ==
    /\ message_history = <<User(<<"q">>), Assistant(<<"a">>)>>
    /\ knowledge_base_built = TRUE
    /\ current_sources = <<"a">>
    /\ document_retriever =
          Some([built_from |-> <<"a">>, chunks |-> <<"a">>, parts |-> AllParts])
    /\ sources = <<"a">>
    /\ build_kb_button = FALSE
    /\ question = None
    /\ pc = "idle"
    /\ docs_list = <<>>
    /\ doc_splits = <<>>
    /\ parts = {}
    /\ top_docs = <<>>
    /\ retrieved_docs = <<>>
    /\ final_response = <<>>
    /\ wf_error = "none"
    /\ fb_error = "none"
    /\ displayed = {}
    /\ chat_input_shown = TRUE
    /\ node = START
    /\ path = <<>>
    /\ rewrites = 0
    /\ evidence = <<>>
    /\ pre_retriever = None
    /\ pre_built = FALSE
    /\ messages = <<>>
    /\ partial_response = <<>>
    /\ turns = 0
    /\ call = NoCall

SpecAfterTurn == InitAfterTurn /\ [][Next]_vars

\* ------------------------------------ the retrieval functions on their own

MaxChunks == 6

MaxK == 6

MaxScore == 1

\* The search of the vector store for one query: the chunks S of the index
\* (numbered in insertion order) by descending similarity score, equal scores
\* in insertion order.
RECURSIVE similarity_search(_, _)
similarity_search(S, score) ==
    IF S = {} THEN <<>>
    ELSE LET best == CHOOSE i \in S :
                        \A j \in S : score[i] > score[j]
                                       \/ (score[i] = score[j] /\ i <= j)
         IN  <<best>> \o similarity_search(S \ { best }, score)

\* An index of n chunks, the scores a query gives them, and k.
TopKInputs ==
    UNION { { <<n, score, k>> : score \in [1..n -> 0..MaxScore], k \in 0..MaxK } :
            n \in 1..MaxChunks }

InitTopK ==
    /\ AppInit
    /\ call \in { [fn |-> "input", args |-> a, result |-> <<>>] : a \in TopKInputs }

CallRanking == similarity_search(1..call.args[1], call.args[2])

\* document_retriever.retrieve_top_k(query, k)
CallRetrieveTopK ==
    /\ call.fn = "input"
    /\ call' = [call EXCEPT !.fn = "retrieve_top_k",
                            !.result = retrieve_top_k(CallRanking, call.args[3])]
    /\ UNCHANGED app

\* document_retriever.retrieve_documents(query, k), the retriever answers.
CallRetrieveDocuments ==
    /\ call.fn = "input"
    /\ call' = [call EXCEPT !.fn = "retrieve_documents",
                            !.result = retrieve_documents(CallRanking, call.args[3])]
    /\ UNCHANGED app

\* document_retriever.retrieve_documents(query, k), the retriever raises: the
\* handler returns [].
CallRetrieveDocumentsFails ==
    /\ call.fn = "input"
    /\ call' = [call EXCEPT !.fn = "retrieve_documents_failed", !.result = <<>>]
    /\ UNCHANGED app

NextTopK ==
    \/ CallRetrieveTopK
    \/ CallRetrieveDocuments
    \/ CallRetrieveDocumentsFails

SpecTopK == InitTopK /\ [][NextTopK]_vars

\* The chunk ranked at a comes before the chunk ranked at b: higher score, or
\* the same score and inserted earlier.
RankedBefore(score, a, b) == score[a] > score[b] \/ (score[a] = score[b] /\ a < b)

\* C12: retrieve_top_k and retrieve_documents return at most k chunks; the
\* chunks returned are distinct, in descending order of similarity with equal
\* scores in insertion order, and every chunk of the index that was not
\* returned ranks after every chunk that was; a call that did not fail
\* returns min(k, RetrieverK, size of the index) chunks, a retrieve_documents
\* whose retriever raised returns none.
C12_TopKQuery ==
    call.fn \in { "retrieve_top_k", "retrieve_documents", "retrieve_documents_failed" } =>
        LET n == call.args[1]
            score == call.args[2]
            k == call.args[3]
            r == call.result
        IN  /\ Len(r) <= k
            /\ \A i, j \in 1..Len(r) : i < j => RankedBefore(score, r[i], r[j])
            /\ IF call.fn = "retrieve_documents_failed" THEN r = <<>>
               ELSE /\ Len(r) = Min(k, Min(RetrieverK, n))
                    /\ \A c \in (1..n) \ Range(r) :
                          \A i \in 1..Len(r) : RankedBefore(score, r[i], c)

\* An index of more than RetrieverK chunks queried with k = 3: three chunks
\* come back, the first two with the same score in insertion order, and a
\* chunk inserted before them with a lower score is left out.
C12_Witness ==
    /\ call.fn = "retrieve_documents"
    /\ call.args[1] > RetrieverK
    /\ call.args[3] = TopK
    /\ Len(call.result) = TopK
    /\ call.args[2][call.result[1]] = call.args[2][call.result[2]]
    /\ call.result[1] < call.result[2]
    /\ 1 \notin Range(call.result)

\* ------------------------------------------------- properties: the workflow

\* The node that followed position i of the path: the next entry, or for the
\* last entry the node entered next.
NextNode(i) == IF i < Len(path) THEN path[i + 1] ELSE node

Count(p, x, upto) == Cardinality({ i \in 1..upto : p[i] = x })

DecideVisits == Count(path, "generate_query_or_respond", Len(path))

\* rewrite_question runs among the first i entries of the path.
RewritesBefore(i) == Count(path, "rewrite_question", i)

GradeFollowsRetrieve ==
    /\ \A i \in 1..Len(path) :
          path[i] = "retrieve" => NextNode(i) \in GradeLabels \cup { "grade" }
    /\ \A i \in 1..Len(path) :
          path[i] = "relevant" => NextNode(i) = "generate_answer"
    /\ \A i \in 1..Len(path) :
          path[i] = "generate_answer" => (i > 1 /\ path[i - 1] \in GradeLabels)
    /\ (pc = "stream" /\ node = "generate_answer")
          => (path # <<>> /\ Last(path) \in GradeLabels)

C3_DecideRoutesToAnswer ==
    /\ \A i \in 1..Len(path) :
          path[i] = "generate_query_or_respond"
              => NextNode(i) \in { "retrieve", "generate_answer" }
    /\ (pc \in { "stream", "append_assistant" } /\ node = END)
          => (path # <<>> /\ Last(path) = "generate_answer")

\* ------------------------------------------------ properties: the session

BuildPcs ==
    { "load", "split", "store", "store_sources", "store_built", "build_failed" }
        \cup CtorPcs

AskPcs ==
    { "top_k", "retrieve_documents", "append_user", "stream", "fallback",
      "append_assistant" }

\* C4: in every state but the one between the assignments of lines 185 and
\* 186 (no query and no Streamlit call lies between them) a stored retriever
\* was built from current_sources and holds chunks of those sources only, and
\* when the active source list differs from current_sources the stored
\* retriever is None and knowledge_base_built is false; while a question is
\* processed the stored retriever was built from
\* the source list of this run, and every chunk a retrieval returned comes
\* from a source of that list.
C4_IndexInvalidation ==
    /\ (document_retriever # None /\ pc # "store_sources") =>
          /\ document_retriever[1].built_from = current_sources
          /\ Range(Chunks(document_retriever)) \subseteq Range(current_sources)
    /\ (SourcesChanged(sources, current_sources) /\ pc # "store_sources") =>
          (document_retriever = None /\ ~knowledge_base_built)
    /\ pc \in AskPcs =>
          /\ document_retriever # None
          /\ document_retriever[1].built_from = sources
          /\ Range(top_docs) \cup Range(retrieved_docs) \cup Range(evidence)
                \subseteq Range(sources)

\* The run found the source list changed and cleared the index that the run
\* before had left; the question it carries waits at the guard.
C4_Witness ==
    /\ pc = "guard"
    /\ question # None
    /\ pre_retriever # None
    /\ document_retriever = None
    /\ sources # <<>>

\* C5: from a state without a built knowledge base no step enters the question
\* block (no direct retrieval, no workflow traversal), appends to
\* message_history or fills a retrieval result; with an empty source list no
\* build starts and the knowledge base is not built.
C5_NoQueryBeforeBuild ==
    [][ /\ ~knowledge_base_built =>
             /\ pc' \notin AskPcs
             /\ message_history' = message_history
             /\ top_docs' = <<>> /\ retrieved_docs' = <<>> /\ evidence' = <<>>
        /\ sources' = <<>> => (~knowledge_base_built' /\ pc' \notin BuildPcs \cup AskPcs)
      ]_vars

\* A question arrives in the run that finds the source list emptied: nothing
\* is built any more and the run is at the guard, about to stop.
C5_Witness ==
    /\ pc = "guard"
    /\ question # None
    /\ sources = <<>>
    /\ ~knowledge_base_built
    /\ document_retriever = None

\* The texts of the exceptions that can be raised.
RaisedTexts == ErrTexts \cup { NoSplitsText }

HasRaisedText(t) == \E e \in RaisedTexts : Contains(t, e)

\* C6 as claimed: when the workflow raised (and direct retrieval had returned
\* chunks), the answer of the turn is the reply of the one fallback call over
\* the question and the retrieved chunks, is not empty and is not an error.
C6_FallbackAnswers ==
    (pc = "append_assistant" /\ wf_error # "none" /\ retrieved_docs # <<>>) =>
        /\ final_response = ModelReply(FallbackPrompt(question, retrieved_docs))
        /\ Strip(final_response) # <<>>
        /\ ~HasRaisedText(final_response)

\* C7 as claimed: workflow and fallback call both failed and direct retrieval
\* had returned evidence: the answer is the fixed message.
C7_DoubleFailureFixedMessage ==
    (pc = "append_assistant" /\ wf_error # "none" /\ fb_error # "none"
        /\ retrieved_docs # <<>>)
        => final_response = NoInfoMsg

\* C8 as claimed: no text on the page, in the answer being shown or in
\* message_history holds the text of a raised exception.
C8_NoRawErrorText ==
    /\ \A t \in displayed : ~HasRaisedText(t)
    /\ ~HasRaisedText(final_response)
    /\ \A i \in 1..Len(message_history) : ~HasRaisedText(message_history[i].content)

\* C9 as claimed: after a build that raised, the stored retriever and
\* knowledge_base_built are what they were before the run of the build click.
C9_Original ==
    pc = "build_failed" =>
        (document_retriever = pre_retriever /\ knowledge_base_built = pre_built)

\* C9 as amended: after a build that raised, the stored retriever and
\* knowledge_base_built are what they were when the build block was entered:
\* the values from before the run when the source list equals
\* current_sources, and None and false when it differs (the sources_changed
\* check of the same run has cleared them).
C9_FailedBuildKeepsState ==
    pc = "build_failed" =>
        IF SourcesChanged(sources, current_sources)
          THEN document_retriever = None /\ ~knowledge_base_built
          ELSE document_retriever = pre_retriever /\ knowledge_base_built = pre_built

\* A rebuild from the unchanged source list raised and the index built before
\* is still stored.
C9_Witness ==
    /\ pc = "build_failed"
    /\ pre_retriever # None
    /\ document_retriever = pre_retriever
    /\ knowledge_base_built

\* C10: a step of the build block that changes document_retriever,
\* current_sources or knowledge_base_built is taken with a non-empty docs_list
\* and a non-empty doc_splits and stores an index that holds chunks; from an
\* empty doc_splits the constructor goes to the handler of the build block.
C10_EmptyBuildRejected ==
    [][ /\ (pc \in BuildPcs /\ <<knowledge_base_built, current_sources, document_retriever>>'
                                 # <<knowledge_base_built, current_sources, document_retriever>>)
              => /\ docs_list # <<>>
                 /\ doc_splits # <<>>
                 /\ Chunks(document_retriever') # <<>>
        /\ (pc = "ctor" /\ doc_splits = <<>>) => pc' = "build_failed"
      ]_vars

\* Documents loaded but no chunk was produced: the constructor raised on the
\* empty list, and nothing is stored.
C10_Witness ==
    /\ pc = "build_failed"
    /\ docs_list # <<>>
    /\ doc_splits = <<>>
    /\ <<BuildErrorPrefix, NoSplitsText>> \in displayed
    /\ document_retriever = None
    /\ ~knowledge_base_built

\* ------------------------------------------- properties: the index store

\* The stored retriever while the build block constructs a new one: what
\* lines 146-151 left of the retriever the run started with.
RetrieverDuringBuild ==
    IF SourcesChanged(sources, current_sources) THEN None ELSE pre_retriever

\* C11: a stored retriever always has its embeddings, vector store, retriever
\* and tool; until the constructor has returned the stored retriever is the
\* one the run found; knowledge_base_built is true only with a stored
\* retriever that was built from the stored current_sources; a question is
\* processed only with the flag set and a complete retriever.
C11_AtomicIndexReplacement ==
    /\ document_retriever # None => document_retriever[1].parts = AllParts
    /\ pc \in { "load", "split", "store" } \cup CtorPcs =>
          document_retriever = RetrieverDuringBuild
    /\ knowledge_base_built =>
          /\ document_retriever # None
          /\ document_retriever[1].built_from = current_sources
    /\ pc \in AskPcs =>
          /\ knowledge_base_built
          /\ document_retriever # None
          /\ document_retriever[1].parts = AllParts

\* The new index has replaced the index of other sources and current_sources
\* is stored; the flag, cleared when the sources changed, is not yet set.
C11_Witness ==
    /\ pc = "store_built"
    /\ pre_retriever # None
    /\ document_retriever = Some(NewIndex)
    /\ document_retriever # pre_retriever
    /\ current_sources = sources
    /\ ~knowledge_base_built

\* ------------------------------------------------- properties: the turn

\* Streamlit has ended a run on an exception that nothing caught.
UncaughtShown == \E t \in displayed : Head(t) = "Traceback: "

\* C13: no failure of a retrieval made for a question ends the run by an
\* uncaught exception, which would leave the turn without its answer.
C13_FailingQueryCompletes == ~UncaughtShown

\* The history is user, assistant, user, assistant, ...
Alternates(history) ==
    /\ Len(history) % 2 = 0
    /\ \A i \in 1..Len(history) :
          history[i].role = (IF i % 2 = 1 THEN "user" ELSE "assistant")

\* C14: whenever no run is in progress or a question has just been taken,
\* message_history alternates user, assistant; when the assistant entry of a
\* turn is about to be appended the history is the alternating history of
\* the turns before followed by the one user entry of this turn, and one
\* traversal has run (to its end, or into the fallback).
C14_OneTurnOneTraversal ==
    /\ pc \in { "idle", "top_k" } => Alternates(message_history)
    /\ pc = "append_assistant" =>
          /\ message_history # <<>>
          /\ Last(message_history) = User(question)
          /\ Alternates(SubSeq(message_history, 1, Len(message_history) - 1))
          /\ path # <<>> \/ wf_error # "none"

\* A user entry that is not followed by an assistant entry.
HalfTurn(history) ==
    \E i \in 1..Len(history) :
        /\ history[i].role = "user"
        /\ i = Len(history) \/ history[i + 1].role # "assistant"

\* C15: whenever no run is in progress (the last run ended, was stopped or
\* was replaced by a rerun) message_history holds no user entry without its
\* assistant entry.
C15_AbortAtomicity == pc = "idle" => ~HalfTurn(message_history)

\* The script has called retrieve_top_k or retrieve_documents in this run.
DirectQueryMade == pc \in AskPcs \ { "top_k" }

\* C16: the script has queried the index directly in a run only if the
\* workflow of that run has failed.
C16_AgenticOwnsRetrieval == DirectQueryMade => wf_error # "none"

\* --------------------------------------- properties: grades and rewrites

HistoryReceived(history, msgs, q) ==
    /\ Len(msgs) = Len(history)
    /\ \A i \in 1..Len(history) :
          /\ history[i].role \in { "user", "assistant" }
          /\ msgs[i].type = (IF history[i].role = "user" THEN "human" ELSE "ai")
          /\ msgs[i].content = history[i].content
    /\ msgs # <<>>
    /\ Last(msgs) = HumanMessage(q)

\* C19: every step leaves message_history as it is or appends one entry to
\* it; the step that starts the workflow hands it one message for each entry
\* of the whole history, in order and of the entry's role and content, the
\* last being the question of the turn.
C19_FullOrderedHistory ==
    [][ /\ \/ message_history' = message_history
           \/ /\ Len(message_history') = Len(message_history) + 1
              /\ SubSeq(message_history', 1, Len(message_history)) = message_history
        /\ (pc = "append_user" /\ pc' = "stream") =>
              HistoryReceived(message_history', messages', question)
      ]_vars

\* The workflow of the second turn has been started with the first turn's
\* question and answer and the new question.
C19_Witness ==
    /\ pc = "stream"
    /\ node = START
    /\ Len(message_history) = 3
    /\ messages = <<HumanMessage(<<"q">>), AIMessage(<<"a">>), HumanMessage(question)>>

\* The three results of the handler around the stream.
FallbackResults(q, docs, e) ==
    { NoInfoMsg, ModelReply(FallbackPrompt(q, docs)), <<SorryPrefix, e>> }

\* The tokens the stream loop can put into final_response.
StreamTokens ==
    { " " } \cup UNION { Range(clean_streamed_text(c)) : c \in TextSamples \cup { GradeJson } }

\* C20: the answer about to be stored is, when the stream raised, one of the
\* results of the handler and nothing else, whatever the stream had
\* accumulated; when it did not raise, it is made of streamed text only.
C20_FallbackReplacesPartial ==
    pc = "append_assistant" =>
        IF wf_error # "none"
          THEN final_response \in FallbackResults(question, retrieved_docs, wf_error)
          ELSE /\ Range(final_response) \subseteq StreamTokens
               /\ partial_response = <<>>

\* The stream raised after it had accumulated text, and the answer is the
\* reply of the fallback call.
C20_Witness ==
    /\ pc = "append_assistant"
    /\ wf_error # "none"
    /\ partial_response # <<>>
    /\ final_response = ModelReply(FallbackPrompt(question, retrieved_docs))

\* ------------------------------------------------ properties: stored answer

\* C21: every assistant entry of message_history has non-empty content,
\* whether the answer was accumulated from the stream or set by the fallback.
C21_NonEmptyAnswer ==
    \A i \in 1..Len(message_history) :
        message_history[i].role = "assistant" => message_history[i].content # <<>>

\* -------------------------------------------- DocumentProcessor.load_documents

\* The longest list of sources given to one call, and the most documents
\* (pages) one loader returns.
MaxSources == 2

MaxDocs == 2

\* Names are token sequences: directories, a stem and an extension.
Dir == "dir/"

Extensions == { ".pdf", ".PDF", ".docx", ".doc", ".txt", ".xyz" }

\* os.path.splitext(name)[1]
splitext(name) == IF Len(name) > 1 /\ Last(name) \in Extensions THEN Last(name) ELSE ""

\* suffix.lower()
LowerSuffix(suffix) == IF suffix = ".PDF" THEN ".pdf" ELSE suffix

\* os.path.basename(path)
RECURSIVE basename(_)
basename(p) == IF p # <<>> /\ Head(p) = Dir THEN basename(Tail(p)) ELSE p

\* source.startswith(("http://", "https://"))
IsUrl(text) == text # <<>> /\ Head(text) \in { "http://", "https://" }

\* "Choose loader based on file type"; "" stands for the ValueError branch.
LoaderFor(suffix) ==
    IF LowerSuffix(suffix) = ".pdf" THEN "PyPDFLoader"
    ELSE IF LowerSuffix(suffix) \in { ".docx", ".doc" } THEN "Docx2txtLoader"
    ELSE IF LowerSuffix(suffix) = ".txt" THEN "TextLoader"
    ELSE ""

\* The sources of a call. An uploaded file is a dict (type, name, content; the
\* content key may be missing), a URL or a local path is a str; exists is the
\* answer of os.path.exists for it. The last two are neither.
SourceSamples ==
    { [form |-> "dict", type |-> "file", name |-> <<"r", x>>, content |-> TRUE] :
        x \in { ".pdf", ".xyz" } }
    \cup { [form |-> "dict", type |-> "file", name |-> <<"r", ".txt">>, content |-> FALSE],
           [form |-> "dict", type |-> "note", name |-> <<"r", ".txt">>, content |-> TRUE] }
    \cup { [form |-> "str", text |-> <<"https://", "x">>, exists |-> FALSE],
           [form |-> "str", text |-> <<Dir, "r", ".PDF">>, exists |-> TRUE],
           [form |-> "str", text |-> <<Dir, "r", ".docx">>, exists |-> FALSE],
           [form |-> "str", text |-> <<Dir, "r">>, exists |-> TRUE] }

\* What loader.load() does for a source: it raises, or returns n documents.
LoadOutcomes ==
    { [raises |-> TRUE, n |-> 0] } \cup { [raises |-> FALSE, n |-> k] : k \in 0..MaxDocs }

\* The metadata a loader puts on its j-th document: the path or URL it read,
\* and the page for a PDF.
LoaderMetadata(loader, read, j) ==
    IF loader = "PyPDFLoader" THEN [source |-> read, page |-> j] ELSE [source |-> read]

\* The result of a block of statements: the exception that left it ("" when it
\* ran to its end), and what it added to docs_list and to errors.
Raised(e) == [exc |-> e, docs |-> <<>>, errors |-> <<>>]

Added(docs, errors) == [exc |-> "", docs |-> docs, errors |-> errors]

\* docs = loader.load(); if docs: (d.metadata = dict(d.metadata or {});
\* d.metadata.update(provenance)) for each d; docs_list.extend(docs)
\* else: errors.append("No content in ...")
LoadWith(loader, read, load, provenance, what) ==
    IF load.raises THEN Raised("load")
    ELSE IF load.n = 0 THEN Added(<<>>, << <<"No content in", what>> >>)
    ELSE Added([j \in 1..load.n |->
                   [page_content |-> j,
                    metadata |-> provenance @@ LoaderMetadata(loader, read, j)]],
               <<>>)

\* except Exception as e: errors.append(f"Failed to load ..."); continue
Except(block, what) ==
    IF block.exc # "" THEN Added(<<>>, << <<"Failed to load", what>> >>) ELSE block

\* The uploaded-file branch (lines 39-76); the loader reads a temporary copy.
LoadUploaded(source, load) ==
    Except(IF ~source.content THEN Raised("KeyError")
           ELSE IF LoaderFor(splitext(source.name)) = "" THEN Raised("ValueError")
           ELSE LoadWith(LoaderFor(splitext(source.name)), <<"tmp">>, load,
                         [source_type |-> "file", source_name |-> source.name,
                          source |-> source.name],
                         source.name),
           source.name)

\* The URL branch (lines 79-103).
LoadUrl(source, load) ==
    Except(LoadWith("WebBaseLoader", source.text, load,
                    [source_type |-> "url", source_name |-> source.text,
                     source |-> source.text],
                    source.text),
           source.text)

\* The local-path branch (lines 106-133).
LoadPath(source, load) ==
    Except(IF LoaderFor(splitext(source.text)) = "" THEN Raised("ValueError")
           ELSE LoadWith(LoaderFor(splitext(source.text)), source.text, load,
                         [source_type |-> "filepath",
                          source_name |-> basename(source.text),
                          source |-> source.text],
                         source.text),
           source.text)

\* The body of "for source in sources" for one source and what its loader does
\* (lines 36-140).
LoadSource(source, load) ==
    IF source.form = "dict" /\ source.type = "file" THEN LoadUploaded(source, load)
    ELSE IF source.form = "str" /\ IsUrl(source.text) THEN LoadUrl(source, load)
    ELSE IF source.form = "str" /\ source.exists THEN LoadPath(source, load)
    ELSE Added(<<>>, << <<"Unsupported source format", source>> >>)

\* Mutant of LoadLoop: the loop ends at the first source that adds an error
\* (break instead of continue).
RECURSIVE LoadLoop_StopsAtFailure(_, _, _)
LoadLoop_StopsAtFailure(sources_, loads, i) ==
    IF i > Len(sources_) THEN Added(<<>>, <<>>)
    ELSE LET this == LoadSource(sources_[i], loads[i])
             rest == LoadLoop_StopsAtFailure(sources_, loads, i + 1) IN
         IF this.exc # "" \/ this.errors # <<>> THEN this
         ELSE [exc |-> rest.exc, docs |-> this.docs \o rest.docs,
               errors |-> this.errors \o rest.errors]

\* The for loop from its i-th iteration on: an exception that leaves an
\* iteration leaves the loop with what the earlier iterations added.
RECURSIVE LoadLoop(_, _, _)
LoadLoop(sources_, loads, i) ==
    IF i > Len(sources_) THEN Added(<<>>, <<>>)
    ELSE LET this == LoadSource(sources_[i], loads[i])
             rest == LoadLoop(sources_, loads, i + 1) IN
         IF this.exc # "" THEN this
         ELSE [exc |-> rest.exc, docs |-> this.docs \o rest.docs,
               errors |-> this.errors \o rest.errors]

\* DocumentProcessor.load_documents(sources) with the outcome of each loader:
\* the exception it raises ("" for none) and the list it returns.
DocumentProcessor_load_documents(sources_, loads) ==
    LET loop == LoadLoop(sources_, loads, 1) IN
    [exc |-> loop.exc, value |-> IF loop.exc = "" THEN loop.docs ELSE <<>>]

\* The calls of load_documents: up to MaxSources sources, and for each what
\* its loader does.
LoadInputs ==
    UNION { { <<srcs, loads>> : srcs \in [1..n -> SourceSamples],
                                loads \in [1..n -> LoadOutcomes] } :
            n \in 0..MaxSources }

InitLoad ==
    /\ AppInit
    /\ call \in { [fn |-> "input", args |-> a, result |-> <<>>] : a \in LoadInputs }

\* document_processor.load_documents(sources)
CallLoadDocuments ==
    /\ call.fn = "input"
    /\ call' = [call EXCEPT !.fn = "load_documents",
                            !.result = DocumentProcessor_load_documents(call.args[1],
                                                                        call.args[2])]
    /\ UNCHANGED app

NextLoad == CallLoadDocuments

SpecLoad == InitLoad /\ [][NextLoad]_vars

\* ------------------------------------------- properties: loading the sources

SupportedSuffixes == { ".pdf", ".docx", ".doc", ".txt" }

\* The source is of a format load_documents reads: an uploaded file with its
\* content, a URL, or an existing local file, the files of a supported type.
Supported(source) ==
    \/ /\ source.form = "dict"
       /\ source.type = "file"
       /\ source.content
       /\ LowerSuffix(splitext(source.name)) \in SupportedSuffixes
    \/ /\ source.form = "str"
       /\ IsUrl(source.text)
    \/ /\ source.form = "str"
       /\ ~IsUrl(source.text)
       /\ source.exists
       /\ LowerSuffix(splitext(source.text)) \in SupportedSuffixes

\* The source loads: its format is supported and its loader returns documents.
Loads(source, load) == Supported(source) /\ ~load.raises /\ load.n > 0

NameOf(source) == IF source.form = "dict" THEN source.name ELSE source.text

TypeOf(source) ==
    IF source.form = "dict" THEN "file"
    ELSE IF IsUrl(source.text) THEN "url" ELSE "filepath"

\* For each document expected of a call, in order: the position of its source
\* in the list and its number among the documents of that source.
RECURSIVE Origins(_, _, _)
Origins(srcs, loads, i) ==
    IF i > Len(srcs) THEN <<>>
    ELSE (IF Loads(srcs[i], loads[i]) THEN [j \in 1..loads[i].n |-> <<i, j>>] ELSE <<>>)
             \o Origins(srcs, loads, i + 1)

ProvenanceKeys == { "source", "source_type", "source_name" }

\* C22: load_documents never raises; it returns exactly the documents of the
\* sources that load, in the order of the sources (whatever the other sources
\* of the list do), and every returned document carries source, source_type
\* and source_name metadata that name the source it came from.
C22_PerSourceIsolation ==
    call.fn = "load_documents" =>
        LET srcs == call.args[1]
            from == Origins(srcs, call.args[2], 1)
            docs == call.result.value IN
        /\ call.result.exc = ""
        /\ Len(docs) = Len(from)
        /\ \A n \in 1..Len(from) :
             LET s == srcs[from[n][1]] IN
             /\ docs[n].page_content = from[n][2]
             /\ ProvenanceKeys \subseteq DOMAIN docs[n].metadata
             /\ docs[n].metadata.source = NameOf(s)
             /\ docs[n].metadata.source_type = TypeOf(s)
             /\ docs[n].metadata.source_name =
                    IF TypeOf(s) = "filepath" THEN basename(s.text) ELSE NameOf(s)

\* A call whose first source is of a supported format and whose loader raises,
\* and whose second source loads: its documents are returned.
C22_Witness ==
    /\ call.fn = "load_documents"
    /\ Len(call.args[1]) = 2
    /\ Supported(call.args[1][1])
    /\ call.args[2][1].raises
    /\ Loads(call.args[1][2], call.args[2][2])
    /\ Len(call.result.value) = call.args[2][2].n

====
